---- MODULE Spec2Model ----
(***************************************************************************)
(* SiliconFlow Images -> OpenAI-compatible proxy (src/worker.js).          *)
(*                                                                         *)
(* One inbound request is followed from handleRequest through the proxy    *)
(* access gate, the route, the endpoint handler (imagesGenerations or      *)
(* chatCompletions), its upstream calls (callSiliconFlow) and image        *)
(* fetches (fetchAndB64), to the response handed to event.respondWith.     *)
(*                                                                         *)
(* JavaScript values are records tagged by "t"; strings are sequences of   *)
(* pieces (single characters where the code parses them, whole words      *)
(* where it only tests them for emptiness or copies them).                 *)
(***************************************************************************)
EXTENDS Integers, Sequences, FiniteSets

(* ------------------------- JavaScript values --------------------------- *)

Undefined == [t |-> "undefined"]
Null == [t |-> "null"]
Str(cs) == [t |-> "string", chars |-> cs]
Bool(b) == [t |-> "boolean", b |-> b]
Arr(xs) == [t |-> "array", items |-> xs]
Obj(f) == [t |-> "object", fields |-> f]

\* A finite Number: sign, the significant decimal digits d1..dk (no trailing
\* zeros) and the position n of the decimal point: value = 0.d1..dk * 10^n.
Num(neg, ds, n) == [t |-> "number", neg |-> neg, digits |-> ds, n |-> n]

\* Small non-negative integers written the short way.
Int1(d) == Num(FALSE, <<d>>, 1)

Truthy(v) ==
    CASE v.t = "undefined" -> FALSE
      [] v.t = "null" -> FALSE
      [] v.t = "string" -> v.chars # <<>>
      [] v.t = "number" -> v.digits # <<0>>
      [] v.t = "boolean" -> v.b
      [] OTHER -> TRUE

DigitChars == <<"0", "1", "2", "3", "4", "5", "6", "7", "8", "9">>

DigitChar(d) == DigitChars[d + 1]

IsDigitChar(c) == \E i \in 1..Len(DigitChars) : DigitChars[i] = c

DigitOf(c) == (CHOOSE i \in 1..Len(DigitChars) : DigitChars[i] = c) - 1

Zeros(k) == [i \in 1..k |-> "0"]

DigitsToChars(ds) == [i \in 1..Len(ds) |-> DigitChar(ds[i])]

\* Decimal digits of a non-negative integer below 100 (exponents only).
NatToChars(k) == IF k < 10 THEN <<DigitChar(k)>> ELSE <<DigitChar(k \div 10), DigitChar(k % 10)>>

\* Number::toString(x) in radix 10 (ECMA-262 6.1.6.1.20), which String(v)
\* applies to a Number.
NumberToString(x) ==
    LET k == Len(x.digits)
        n == x.n
        cs == DigitsToChars(x.digits)
        e == n - 1
        expo == <<"e">> \o (IF e < 0 THEN <<"-">> ELSE <<"+">>) \o NatToChars(IF e < 0 THEN -e ELSE e)
        body == IF k <= n /\ n <= 21 THEN cs \o Zeros(n - k)
                ELSE IF 0 < n /\ n <= 21 THEN SubSeq(cs, 1, n) \o <<".">> \o SubSeq(cs, n + 1, k)
                ELSE IF -6 < n /\ n <= 0 THEN <<"0", ".">> \o Zeros(-n) \o cs
                ELSE IF k = 1 THEN cs \o expo
                ELSE <<cs[1], ".">> \o SubSeq(cs, 2, k) \o expo
    IN  IF x.digits = <<0>> THEN <<"0">>
        ELSE (IF x.neg THEN <<"-">> ELSE <<>>) \o body

\* String(v) for the values a JSON body can carry in a scalar field.
JsString(v) ==
    CASE v.t = "string" -> v.chars
      [] v.t = "number" -> NumberToString(v)
      [] v.t = "boolean" -> IF v.b THEN <<"t", "r", "u", "e">> ELSE <<"f", "a", "l", "s", "e">>
      [] v.t = "null" -> <<"n", "u", "l", "l">>
      [] v.t = "undefined" -> <<"undefined">>
      [] OTHER -> <<"[object Object]">>

IsWhiteSpace(c) == c \in {" ", "\t", "\n"}

RECURSIVE SkipWhiteSpace(_)
SkipWhiteSpace(cs) ==
    IF cs # <<>> /\ IsWhiteSpace(Head(cs)) THEN SkipWhiteSpace(Tail(cs)) ELSE cs

RECURSIVE DigitPrefixValue(_, _)
DigitPrefixValue(cs, acc) ==
    IF cs # <<>> /\ IsDigitChar(Head(cs))
    THEN DigitPrefixValue(Tail(cs), 10 * acc + DigitOf(Head(cs)))
    ELSE acc

\* The digits of parseInt, once white space and sign are off.
ParseDigits(neg, r) ==
    IF r = <<>> \/ ~IsDigitChar(Head(r))
    THEN [nan |-> TRUE, v |-> 0]
    ELSE [nan |-> FALSE, v |-> IF neg THEN -DigitPrefixValue(r, 0) ELSE DigitPrefixValue(r, 0)]

ParseSigned(s) ==
    ParseDigits(s # <<>> /\ Head(s) = "-", IF s # <<>> /\ Head(s) \in {"-", "+"} THEN Tail(s) ELSE s)

\* parseInt(chars, 10): leading white space, an optional sign, then the
\* longest prefix of decimal digits; NaN when that prefix is empty.
parseInt(chars) == ParseSigned(SkipWhiteSpace(chars))

Max(a, b) == IF a >= b THEN a ELSE b
Min(a, b) == IF a <= b THEN a ELSE b

\* if (Number.isNaN(n)) return min; return Math.max(min, Math.min(max, n))
ClampParsed(n, min, max) == IF n.nan THEN min ELSE Max(min, Min(max, n.v))

clampInt(v, min, max) == ClampParsed(parseInt(JsString(v)), min, max)

(* --------------------------- property access --------------------------- *)

\* v.name (and v?.name): a property of an object, undefined anywhere else.
Field(v, name) ==
    IF v.t = "object" /\ name \in DOMAIN v.fields THEN v.fields[name] ELSE Undefined

\* a ?? b
Nullish(a, b) == IF a.t \in {"undefined", "null"} THEN b ELSE a

\* a || b
OrElse(a, b) == IF Truthy(a) THEN a ELSE b

EmptyObject == Obj([name \in {} |-> Undefined])

(* ----------------------------- image parse ----------------------------- *)

HttpPrefixes == {"http://", "https://", "HTTP://", "HTTPS://"}
DataImagePrefixes == {"data:image/", "DATA:IMAGE/"}

\* /Qwen\/Qwen-Image-Edit/i over the model ids of the scenarios.
EditModelIds == {<<"Qwen/Qwen-Image-Edit">>, <<"Pro/", "qwen/qwen-image-edit", "-2509">>}

isImageEditModel(model) == model.chars \in EditModelIds

RECURSIVE TrimLeft(_)
TrimLeft(cs) == IF cs # <<>> /\ IsWhiteSpace(Head(cs)) THEN TrimLeft(Tail(cs)) ELSE cs

RECURSIVE TrimRight(_)
TrimRight(cs) ==
    IF cs # <<>> /\ IsWhiteSpace(cs[Len(cs)]) THEN TrimRight(SubSeq(cs, 1, Len(cs) - 1)) ELSE cs

Trim(cs) == TrimRight(TrimLeft(cs))

NormalizeTrimmed(t) ==
    IF t # <<>> /\ (Head(t) \in DataImagePrefixes \/ Head(t) \in HttpPrefixes) THEN Str(t) ELSE Null

\* data:image/... or http(s)://..., trimmed; null for anything else.
normalizeImageString(s) == NormalizeTrimmed(Trim(JsString(s)))

coerceImageStringOrObj(v) ==
    IF ~Truthy(v) THEN Null
    ELSE IF v.t = "string" THEN normalizeImageString(v)
    ELSE IF v.t \in {"object", "array"} /\ Truthy(Field(v, "url")) THEN normalizeImageString(Field(v, "url"))
    ELSE Null

\* The first truthy value of a list, null when there is none.
FirstTruthy(vals) ==
    IF \E i \in 1..Len(vals) : Truthy(vals[i])
    THEN vals[CHOOSE i \in 1..Len(vals) : Truthy(vals[i]) /\ \A j \in 1..(i - 1) : ~Truthy(vals[j])]
    ELSE Null

\* for (const item of arr) { const s = coerceImageStringOrObj(item); if (s) return s; }
CoerceFirst(arr) ==
    IF arr.t = "array" THEN FirstTruthy([i \in 1..Len(arr.items) |-> coerceImageStringOrObj(arr.items[i])])
    ELSE Null

pickImageFromBody(body) ==
    IF ~Truthy(body) THEN Null
    ELSE FirstTruthy(<<coerceImageStringOrObj(Nullish(Field(body, "image"), Field(body, "image_url"))),
                       CoerceFirst(Nullish(Field(body, "images"), Field(body, "image_urls")))>>)

\* The pieces "![alt](" that open a Markdown image.
MarkdownOpeners == {"![image](", "![x]("}

\* Pieces a match of [A-Za-z0-9+/=]+ or [^\s)]+ stops at.
UrlStops == {" ", "\t", "\n", ")"}

RECURSIVE UrlRun(_)
UrlRun(cs) == IF cs # <<>> /\ Head(cs) \notin UrlStops THEN <<Head(cs)>> \o UrlRun(Tail(cs)) ELSE <<>>

\* data:image/<subtype>;base64,<payload> starts at piece i.
DataUriAt(cs, i) ==
    cs[i] = "data:image/" /\ i + 2 <= Len(cs) /\ cs[i + 1] = "png;base64," /\ cs[i + 2] \notin UrlStops

\* ![...](http(s)://...) starts at piece i and its url is run.
MarkdownClosed(cs, i, run) ==
    run # <<>> /\ i + 2 + Len(run) <= Len(cs) /\ cs[i + 2 + Len(run)] = ")"

MarkdownAt(cs, i) ==
    /\ cs[i] \in MarkdownOpeners
    /\ i + 3 <= Len(cs)
    /\ cs[i + 1] \in {"http://", "https://"}
    /\ MarkdownClosed(cs, i, UrlRun(SubSeq(cs, i + 2, Len(cs))))

\* A bare http(s)://... starts at piece i.
BareUrlAt(cs, i) == cs[i] \in {"http://", "https://"} /\ i + 1 <= Len(cs) /\ cs[i + 1] \notin UrlStops

\* The least member of a set of indices, 0 for the empty set.
Least(S) == IF S = {} THEN 0 ELSE CHOOSE i \in S : \A j \in S : i <= j

ExtractAt(cs, d, m, b) ==
    IF d # 0 THEN Str(SubSeq(cs, d, d + 2))
    ELSE IF m # 0 THEN Str(<<cs[m + 1]>> \o UrlRun(SubSeq(cs, m + 2, Len(cs))))
    ELSE IF b # 0 THEN Str(<<cs[b]>> \o UrlRun(SubSeq(cs, b + 1, Len(cs))))
    ELSE Null

ExtractFromPieces(cs) ==
    ExtractAt(cs, Least({i \in 1..Len(cs) : DataUriAt(cs, i)}), Least({i \in 1..Len(cs) : MarkdownAt(cs, i)}),
              Least({i \in 1..Len(cs) : BareUrlAt(cs, i)}))

\* Markdown / bare URL / data: URI out of plain text: the data: URI first,
\* then the first ![..](http..), then the first bare http(s) URL.
extractImageFromPlainText(s) == IF ~Truthy(s) THEN Null ELSE ExtractFromPieces(s.chars)

\* One entry of an array content, as the loop body of pickImageFromMessage
\* treats it: the first of its four tests that yields an image.
pickImageFromPart(it) ==
    FirstTruthy(<<
        IF Truthy(it) /\ Field(it, "type") = Str(<<"image_url">>)
        THEN coerceImageStringOrObj(OrElse(Field(Field(it, "image_url"), "url"), Field(it, "image_url")))
        ELSE Null,
        IF Truthy(it) /\ Field(it, "type") = Str(<<"input_image">>)
        THEN coerceImageStringOrObj(
                 OrElse(Field(Field(it, "image_url"), "url"), OrElse(Field(it, "url"), Field(it, "image"))))
        ELSE Null,
        IF it.t = "string" THEN extractImageFromPlainText(it) ELSE Null,
        IF Truthy(it) /\ it.t \in {"object", "array"}
        THEN coerceImageStringOrObj(
                 OrElse(Field(it, "url"), OrElse(Field(it, "image"),
                     OrElse(Field(it, "src"), OrElse(Field(it, "data"), Field(it, "href"))))))
        ELSE Null >>)

\* The array branch, then the string branch, of pickImageFromMessage.
PickFromContent(content) ==
    FirstTruthy(<<
        IF content.t = "array"
        THEN FirstTruthy([i \in 1..Len(content.items) |-> pickImageFromPart(content.items[i])])
        ELSE Null,
        IF content.t = "string" THEN extractImageFromPlainText(content) ELSE Null >>)

pickImageFromMessage(msg) == IF ~Truthy(msg) THEN Null ELSE PickFromContent(Field(msg, "content"))

\* The messages from the last to the first.
Reverse(xs) == [i \in 1..Len(xs) |-> xs[Len(xs) + 1 - i]]

IsAssistant(m) == Field(m, "role") = Str(<<"assistant">>)
IsUser(m) == Field(m, "role") = Str(<<"user">>)

ImageOfAssistant(m) == IF IsAssistant(m) THEN pickImageFromMessage(m) ELSE Null

\* The images of the assistant messages, the latest message first.
AssistantImages(reversed) == [i \in 1..Len(reversed) |-> ImageOfAssistant(reversed[i])]

\* The fallback that reads the latest assistant message and no other.
pickImageFromLatestAssistantOnly(messages) ==
    IF \E i \in 1..Len(messages) : IsAssistant(messages[i])
    THEN pickImageFromMessage(
             messages[CHOOSE i \in 1..Len(messages) :
                          IsAssistant(messages[i]) /\ \A j \in (i + 1)..Len(messages) : ~IsAssistant(messages[j])])
    ELSE Null

\* for (let i = messages.length - 1; i >= 0; i--) if (m?.role === "assistant") { found = ...; if (found) return found }
pickImageFromLastAssistant(messages) == FirstTruthy(AssistantImages(Reverse(messages)))

\* [...messages].reverse().find(m => m?.role === "user")
LastUser(messages) ==
    IF \E i \in 1..Len(messages) : IsUser(messages[i])
    THEN messages[CHOOSE i \in 1..Len(messages) : IsUser(messages[i]) /\ \A j \in (i + 1)..Len(messages) : ~IsUser(messages[j])]
    ELSE Undefined

RECURSIVE JoinLines(_)
JoinLines(xs) ==
    IF xs = <<>> THEN <<>>
    ELSE IF Len(xs) = 1 THEN Head(xs)
    ELSE Head(xs) \o <<"\n">> \o JoinLines(Tail(xs))

PartText(c) == IF c.t = "string" THEN c.chars ELSE JsString(OrElse(Field(c, "text"), Str(<<>>)))

flattenContentToText(content) ==
    IF ~Truthy(content) THEN Str(<<>>)
    ELSE IF content.t = "string" THEN content
    ELSE IF content.t = "array" THEN Str(JoinLines([i \in 1..Len(content.items) |-> PartText(content.items[i])]))
    ELSE IF content.t = "object" /\ Truthy(Field(content, "text")) THEN Str(JsString(Field(content, "text")))
    ELSE Str(<<>>)

(* ------------------------------ payloads ------------------------------- *)

\* dst[k] = v on an object literal (a function from field names to values).
Put(dst, k, v) == [f \in DOMAIN dst \cup {k} |-> IF f = k THEN v ELSE dst[f]]

RECURSIVE copyIfPresent(_, _, _)
copyIfPresent(src, dst, pairs) ==
    IF pairs = <<>> THEN dst
    ELSE LET from == Head(pairs)[1]
             to == Head(pairs)[2]
             copied == IF Truthy(src) /\ Field(src, from) # Undefined THEN Put(dst, to, Field(src, from)) ELSE dst
         IN  copyIfPresent(src, copied, Tail(pairs))

\* The pairs with each canonical name ahead of its alias: the alias wins.
ParamPairsAliasLast ==
    << <<"negative_prompt", "negative_prompt">>, <<"sf_negative_prompt", "negative_prompt">>,
       <<"num_inference_steps", "num_inference_steps">>, <<"sf_num_steps", "num_inference_steps">>,
       <<"guidance_scale", "guidance_scale">>, <<"sf_guidance_scale", "guidance_scale">>,
       <<"cfg", "cfg">>, <<"sf_cfg", "cfg">>,
       <<"seed", "seed">>, <<"sf_seed", "seed">>,
       <<"sf_batch_size", "batch_size">> >>

\* The list of [from, to] pairs both handlers pass to copyIfPresent.
ParamPairs ==
    << <<"sf_negative_prompt", "negative_prompt">>, <<"negative_prompt", "negative_prompt">>,
       <<"sf_num_steps", "num_inference_steps">>, <<"num_inference_steps", "num_inference_steps">>,
       <<"sf_guidance_scale", "guidance_scale">>, <<"guidance_scale", "guidance_scale">>,
       <<"sf_cfg", "cfg">>, <<"cfg", "cfg">>,
       <<"sf_seed", "seed">>, <<"seed", "seed">>,
       <<"sf_batch_size", "batch_size">> >>

MinImages == 1
MaxImages == 10

\* n = clampInt(openaiBody?.n ?? 1, 1, 10)
ImageCount(body) == clampInt(Nullish(Field(body, "n"), Int1(1)), MinImages, MaxImages)

\* size -> image_size
WithImageSize(body, payload) ==
    LET imageSize == OrElse(Field(body, "sf_image_size"), Field(body, "size"))
    IN  IF imageSize.t = "string" THEN Put(payload, "image_size", imageSize) ELSE payload

\* commonSfPayload.batch_size && n === 1
UseBatch(payload, n) ==
    "batch_size" \in DOMAIN payload /\ Truthy(payload["batch_size"]) /\ n = 1

\* randSeed(): Math.floor(Math.random() * 1e10), here one of MaxSeed values.
MaxSeed == 2
Seeds == 0..(MaxSeed - 1)
SeedValue(s) == Int1(s)

\* The payload with no seed injected.
UnseededPayload(common, s) == common

\* const payload = { ...commonSfPayload }; if (!("seed" in payload)) payload.seed = randSeed();
SeededPayload(common, s) ==
    IF "seed" \in DOMAIN common THEN common ELSE Put(common, "seed", SeedValue(s))

(* ------------------------------ responses ------------------------------ *)

\* json(obj, status): what the client reads of it.
JsonError(message, type, status) ==
    [kind |-> "json", status |-> status, type |-> type, message |-> message, shape |-> "error", data |-> <<>>]

JsonOk(shape, data) ==
    [kind |-> "json", status |-> 200, type |-> "", message |-> <<>>, shape |-> shape, data |-> data]

\* The 204 of the CORS preflight.
Preflight == [kind |-> "preflight", status |-> 204, type |-> "", message |-> <<>>, shape |-> "empty", data |-> <<>>]

\* catch (err) of handleRequest: the internal_error envelope.
Caught(message) == JsonError(message, "internal_error", 500)

\* A promise handed to event.respondWith that rejects: the worker wrote no
\* response (status 0 here); the client gets the platform's error page.
Rejected(message) ==
    [kind |-> "rejected", status |-> 0, type |-> "", message |-> message, shape |-> "none", data |-> <<>>]

\* An error thrown inside imagesGenerations or chatCompletions. handleRequest
\* returns the handler's promise from inside its try block without awaiting
\* it, so the rejection passes the catch clause by.
HandlerThrew(message) == Rejected(message)

(* -------------------------------- auth --------------------------------- *)

KeySeparators == {",", "\n", "\r", "\t", " "}

\* addKeys(set, raw): the pieces of raw between separators, none empty.
addKeys(set, raw) ==
    IF ~Truthy(raw) THEN set
    ELSE set \cup {JsString(raw)[i] : i \in {j \in 1..Len(JsString(raw)) : JsString(raw)[j] \notin KeySeparators}}

ProxyKeys(e) ==
    addKeys(addKeys(addKeys(addKeys(addKeys({}, e.ALLOW_CLIENT_KEY), e.ALLOW_CLIENT_KEYS),
        e.ACCESS_TOKEN), e.ACCESS_TOKENS), e.ACCESS_KEYS)

BearerWords == {"Bearer", "bearer", "BEARER"}

\* provided.replace(/^Bearer\s+/i, "").trim()
StripBearer(cs) ==
    IF Len(cs) >= 2 /\ cs[1] \in BearerWords /\ IsWhiteSpace(cs[2]) THEN Trim(Tail(cs)) ELSE Trim(cs)

\* The access token a request provides: the Authorization header when it
\* leaves anything, else the first non-empty of the four query parameters.
ProvidedToken(r) ==
    LET header == OrElse(r.authorization, Str(<<>>))
        fromHeader == IF Truthy(header) THEN StripBearer(header.chars) ELSE <<>>
        fromQuery == OrElse(r.query.access_token, OrElse(r.query.key,
                         OrElse(r.query.token, OrElse(r.query.apikey, Str(<<>>)))))
    IN  IF fromHeader # <<>> THEN fromHeader ELSE Trim(fromQuery.chars)

\* keys.has(provided): a key is one piece.
HasKey(keys, provided) == Len(provided) = 1 /\ provided[1] \in keys

Unauthorized ==
    JsonError(<<"Unauthorized: missing/invalid access token">>, "authentication_error", 401)

\* The gate that lets any non-empty token through.
authorizeProxyAnyToken(r, e) == ProxyKeys(e) = {} \/ ProvidedToken(r) # <<>>

\* authorizeProxy(req, env).ok
authorizeProxy(r, e) ==
    IF ProxyKeys(e) = {} THEN TRUE
    ELSE ProvidedToken(r) # <<>> /\ HasKey(ProxyKeys(e), ProvidedToken(r))

(* ------------------------------- routing ------------------------------- *)

\* url.pathname.replace(/\/+$/, "")
RECURSIVE StripSlashes(_)
StripSlashes(cs) ==
    IF cs # <<>> /\ cs[Len(cs)] = "/" THEN StripSlashes(SubSeq(cs, 1, Len(cs) - 1)) ELSE cs

Route(r) ==
    LET path == StripSlashes(r.path)
    IN  IF path = <<"/v1/images/generations">> /\ r.method = "POST" THEN "images"
        ELSE IF path = <<"/v1/chat/completions">> /\ r.method = "POST" THEN "chat"
        ELSE IF path = <<"/v1/models">> /\ r.method = "GET" THEN "models"
        ELSE "none"

NoRoute == JsonError(<<"No route">>, "invalid_request_error", 404)

\* JSON.parse of MODELS_JSON succeeds on the texts that are JSON.
JsonTexts == {<<"[", "\"Qwen/Qwen-Image\"", "]">>, <<"{", "}">>}

listModels(e) ==
    IF Truthy(e.MODELS_JSON)
    THEN IF JsString(e.MODELS_JSON) \in JsonTexts
         THEN JsonOk("models.list", <<>>)
         ELSE JsonError(<<"Invalid MODELS_JSON">>, "invalid_request_error", 400)
    ELSE JsonOk("models.list", <<>>)

\* safeJson(req): {} for an empty text, the parsed value, or a thrown error.
safeJson(text) ==
    IF text.kind = "empty" THEN [ok |-> TRUE, value |-> EmptyObject]
    ELSE IF text.kind = "json" THEN [ok |-> TRUE, value |-> text.value]
    ELSE [ok |-> FALSE, value |-> Undefined]

(* ------------------------------ handlers ------------------------------- *)

Respond(resp) == [kind |-> "respond", resp |-> resp]
Throw(message) == [kind |-> "respond", resp |-> HandlerThrew(message)]
Run(locals) == [kind |-> "run", h |-> locals]

\* The locals of a handler that got as far as its first upstream call.
Locals(endpoint, common, n, format) ==
    [endpoint |-> endpoint, common |-> common, n |-> n, batch |-> UseBatch(common, n),
     b64 |-> (format = Str(<<"b64_json">>)), i |-> 0, urls |-> <<>>, out |-> <<>>, j |-> 0,
     next |-> "call", error |-> <<>>]

NoLocals ==
    [endpoint |-> "none", common |-> [f \in {} |-> Undefined], n |-> 0, batch |-> FALSE,
     b64 |-> FALSE, i |-> 0, urls |-> <<>>, out |-> <<>>, j |-> 0, next |-> "none", error |-> <<>>]

InvalidRequest(message) == JsonError(message, "invalid_request_error", 400)

\* getUpstreamKey(env) throws when SILICONFLOW_API_KEY is not configured.
HasUpstreamKey(e) == Truthy(e.SILICONFLOW_API_KEY)

\* if (isEdit) { if (!img) return 400; payload.image = img } else if (img) payload.image = img
WithImage(payload, img) == IF Truthy(img) THEN Put(payload, "image", img) ELSE payload

\* openaiBody?.model ? String(openaiBody.model) : null
ModelOf(body) == IF Truthy(Field(body, "model")) THEN Str(JsString(Field(body, "model"))) ELSE Null

\* openaiBody?.response_format || "url"
FormatOf(body) == OrElse(Field(body, "response_format"), Str(<<"url">>))

\* The payload template both handlers build from model, prompt and image.
CommonPayload(body, model, prompt, img) ==
    copyIfPresent(body, WithImageSize(body, WithImage([model |-> model, prompt |-> prompt], img)), ParamPairs)

\* imagesGenerations from the edit-model gate to its first upstream call.
ImagesGate(body, model, img) ==
    IF isImageEditModel(model) /\ ~Truthy(img)
    THEN Respond(InvalidRequest(<<"image is required for image-edit models">>))
    ELSE Run(Locals("images", CommonPayload(body, model, Field(body, "prompt"), img), ImageCount(body), FormatOf(body)))

ImagesValidate(body, model, prompt) ==
    IF ~Truthy(model) THEN Respond(InvalidRequest(<<"model is required">>))
    ELSE IF ~Truthy(prompt) \/ prompt.t # "string"
         THEN Respond(InvalidRequest(<<"prompt is required (string)">>))
    ELSE ImagesGate(body, model, pickImageFromBody(body))

\* imagesGenerations, from its first line to its first upstream call.
imagesGenerations(body, e) ==
    IF ~HasUpstreamKey(e) THEN Throw(<<"SILICONFLOW_API_KEY not configured">>)
    ELSE ImagesValidate(body, ModelOf(body), Field(body, "prompt"))

\* The input image with the body's image fields looked at before the user
\* message.
ChatImageBodyFirst(body, messages, model) ==
    FirstTruthy(<<pickImageFromBody(body), pickImageFromMessage(LastUser(messages)),
                  pickImageFromLastAssistant(messages)>>)

\* Step 3 of the input image: for an edit model with no image so far, one
\* out of an assistant message.
WithAssistantFallback(img, messages, model) ==
    IF isImageEditModel(model) /\ ~Truthy(img) THEN pickImageFromLastAssistant(messages) ELSE img

\* The input image of a chat request: the latest user message, else the
\* body, else (edit models only) an assistant message.
ChatImage(body, messages, model) ==
    WithAssistantFallback(FirstTruthy(<<pickImageFromMessage(LastUser(messages)), pickImageFromBody(body)>>),
                          messages, model)

\* typeof lastUser?.content === "string" ? lastUser.content : flattenContentToText(lastUser?.content)
PromptOf(content) == IF content.t = "string" THEN content ELSE flattenContentToText(content)

\* chatCompletions from the edit-model gate to its first upstream call.
ChatGate(body, model, prompt, img) ==
    IF isImageEditModel(model) /\ ~Truthy(img)
    THEN Respond(InvalidRequest(<<"image is required for image-edit models in chat">>))
    ELSE Run(Locals("chat", CommonPayload(body, model, prompt, img), ImageCount(body), FormatOf(body)))

ChatValidate(body, e, messages, prompt, model) ==
    IF ~Truthy(prompt) THEN Respond(InvalidRequest(<<"No user prompt found in messages">>))
    ELSE IF ~Truthy(model) THEN Respond(InvalidRequest(<<"model is required">>))
    ELSE IF ~HasUpstreamKey(e) THEN Throw(<<"SILICONFLOW_API_KEY not configured">>)
    ELSE ChatGate(body, model, prompt, ChatImage(body, messages, model))

ChatMessages(body, e, messages) ==
    IF messages = <<>> THEN Respond(InvalidRequest(<<"messages is required (array)">>))
    ELSE ChatValidate(body, e, messages, PromptOf(Field(LastUser(messages), "content")), ModelOf(body))

\* chatCompletions, from its first line to its first upstream call.
chatCompletions(body, e) ==
    ChatMessages(body, e, IF Field(body, "messages").t = "array" THEN Field(body, "messages").items ELSE <<>>)

(* ------------------------- upstream and fetches ------------------------ *)

\* The most images one upstream response carries, and the most responses
\* of one request whose first image has no url.
MaxBatch == 2
MaxNoImage == 1

RECURSIVE BoolSeqs(_)
BoolSeqs(k) ==
    IF k = 0 THEN {<<>>}
    ELSE BoolSeqs(k - 1) \cup {Append(q, b) : q \in {r \in BoolSeqs(k - 1) : Len(r) = k - 1}, b \in BOOLEAN}

\* What the upstream answers: a success whose images[] entries carry a url
\* or do not, or a non-success status with a body.
Replies ==
    {[ok |-> TRUE, status |-> "200", statusText |-> "OK", body |-> "", images |-> q] : q \in BoolSeqs(MaxBatch)}
        \cup {[ok |-> FALSE, status |-> st[1], statusText |-> st[2], body |-> "quota exceeded", images |-> <<>>] :
                  st \in {<<"429", "Too Many Requests">>, <<"500", "Internal Server Error">>}}

\* The url of the idx-th image of the response to the call-th upstream call.
Url(call, idx) == [call |-> call, idx |-> idx]

\* r?.images?.[0]?.url
FirstUrl(reply) == Len(reply.images) >= 1 /\ reply.images[1]

\* The batch response cut to its first image.
UrlsFromFirstOnly(images, call, idx) == IF Len(images) >= 1 /\ images[1] THEN <<Url(call, 1)>> ELSE <<>>

RECURSIVE UrlsFrom(_, _, _)
\* (r?.images || []).map(it => it?.url).filter(Boolean)
UrlsFrom(images, call, idx) ==
    IF idx > Len(images) THEN <<>>
    ELSE (IF images[idx] THEN <<Url(call, idx)>> ELSE <<>>) \o UrlsFrom(images, call, idx + 1)

UrlEntry(u) == [kind |-> "url", url |-> u]
B64Entry(u) == [kind |-> "b64_json", url |-> u]

UrlEntries(urls) == [k \in 1..Len(urls) |-> UrlEntry(urls[k])]

\* if (!r.ok) throw new Error(`Upstream ${r.status} ${r.statusText}: ${text}`)
UpstreamError(reply) == <<"Upstream ", reply.status, " ", reply.statusText, ": ", reply.body>>

\* The loop with its bound off by one: i <= n.
NextPassOffByOne(l) == IF l.i + 1 <= l.n THEN "call" ELSE "finish"

\* for (let i = 0; i < n; i++): after pass i, another call or the end.
NextPass(l) == IF l.i + 1 < l.n THEN "call" ELSE "finish"

\* The chat handler once its calls are over: fetch the urls one by one for
\* b64_json, else render them.
ChatRender(l) ==
    IF l.b64 /\ l.urls # <<>> THEN [l EXCEPT !.next = "fetch", !.j = 1]
    ELSE [l EXCEPT !.next = "finish", !.out = UrlEntries(l.urls)]

\* A handler resumed by the response to its upstream call.
OnUpstream(l, reply) ==
    LET call == l.i + 1
        all == UrlsFrom(reply.images, call, 1)
    IN  IF ~reply.ok THEN [l EXCEPT !.next = "throw", !.error = UpstreamError(reply)]
        ELSE IF l.endpoint = "images" /\ l.batch
             THEN IF l.b64 /\ all # <<>> THEN [l EXCEPT !.urls = all, !.next = "fetch", !.j = 1]
                  ELSE [l EXCEPT !.urls = all, !.out = UrlEntries(all), !.next = "finish"]
        ELSE IF l.endpoint = "images"
             THEN IF ~FirstUrl(reply)
                  THEN [l EXCEPT !.next = "throw", !.error = <<"Upstream did not return image url">>]
                  ELSE IF l.b64 THEN [l EXCEPT !.urls = <<Url(call, 1)>>, !.next = "fetch", !.j = 1]
                  ELSE [l EXCEPT !.out = Append(l.out, UrlEntry(Url(call, 1))), !.i = l.i + 1, !.next = NextPass(l)]
        ELSE IF l.batch THEN ChatRender([l EXCEPT !.urls = all])
        ELSE LET pushed == [l EXCEPT !.urls = IF FirstUrl(reply) THEN Append(l.urls, Url(call, 1)) ELSE l.urls,
                                      !.i = l.i + 1]
             IN  IF NextPass(l) = "call" THEN [pushed EXCEPT !.next = "call"] ELSE ChatRender(pushed)

\* A handler resumed by the outcome of fetchAndB64(urls[j]).
OnFetch(l, ok) ==
    LET got == [l EXCEPT !.out = Append(l.out, B64Entry(l.urls[l.j]))]
    IN  IF ~ok THEN [l EXCEPT !.next = "throw", !.error = <<"Fetch image failed: $ { r.status }">>]
        ELSE IF l.endpoint = "images" /\ ~l.batch
             THEN [got EXCEPT !.urls = <<>>, !.j = 0, !.i = l.i + 1, !.next = NextPass(l)]
        ELSE IF l.j < Len(l.urls) THEN [got EXCEPT !.j = l.j + 1, !.next = "fetch"]
        ELSE [got EXCEPT !.next = "finish"]

(* ------------------------------ scenarios ------------------------------ *)

\* obj with field k set to v; left alone when v is undefined (JSON has no
\* undefined: an absent field is simply not there).
Set(obj, k, v) == IF v = Undefined THEN obj ELSE Obj(Put(obj.fields, k, v))

NoKeysEnv ==
    [SILICONFLOW_API_KEY |-> Str(<<"sk-upstream">>), ALLOW_CLIENT_KEY |-> Undefined,
     ALLOW_CLIENT_KEYS |-> Undefined, ACCESS_TOKEN |-> Undefined, ACCESS_TOKENS |-> Undefined,
     ACCESS_KEYS |-> Undefined, MODELS_JSON |-> Undefined]

\* Configurations of the proxy access keys: none, one, a list, a legacy
\* name, and a value of separators only.
KeyEnvs ==
    { NoKeysEnv,
      [NoKeysEnv EXCEPT !.ALLOW_CLIENT_KEY = Str(<<"k1">>)],
      [NoKeysEnv EXCEPT !.ALLOW_CLIENT_KEYS = Str(<<"k1", ",", " ", "k2">>)],
      [NoKeysEnv EXCEPT !.ACCESS_TOKEN = Str(<<"k2">>), !.MODELS_JSON = Str(<<"{", "oops">>)],
      [NoKeysEnv EXCEPT !.ALLOW_CLIENT_KEY = Str(<<",", " ">>), !.MODELS_JSON = Str(<<"{", "}">>)] }

NoQuery == [access_token |-> Null, key |-> Null, token |-> Null, apikey |-> Null]

Queries ==
    { NoQuery,
      [NoQuery EXCEPT !.access_token = Str(<<"k1">>)],
      [NoQuery EXCEPT !.key = Str(<<" ", "k2">>)],
      [NoQuery EXCEPT !.access_token = Str(<<>>), !.apikey = Str(<<"k1">>)],
      [NoQuery EXCEPT !.token = Str(<<"k3">>), !.apikey = Str(<<"k1">>)] }

Authorizations ==
    { Null, Str(<<"Bearer", " ", "k1">>), Str(<<"bearer", " ", " ", "k2">>), Str(<<"k1">>),
      Str(<<"Basic", " ", "k1">>), Str(<<"Bearer", " ", "k3">>), Str(<<"Bearer">>) }

ImagesPath == <<"/v1/images/generations">>
ChatPath == <<"/v1/chat/completions">>
ModelsPath == <<"/v1/models">>

Paths == {ImagesPath, ChatPath, ModelsPath, ModelsPath \o <<"/">>, <<"/v1/files">>}

PlainModel == Str(<<"Qwen/Qwen-Image">>)
EditModel == Str(<<"Qwen/Qwen-Image-Edit">>)
EditModelTagged == Str(<<"Pro/", "qwen/qwen-image-edit", "-2509">>)

HttpImage == Str(<<"https://", "example.com/a.png">>)
PaddedImage == Str(<<" ", "http://", "example.com/b.png", " ">>)
DataImage == Str(<<"data:image/", "png;base64,", "AAAA">>)
FtpImage == Str(<<"ftp://", "example.com/c.png">>)

\* Chat messages.
Message(role, content) == Obj([role |-> Str(<<role>>), content |-> content])
UserDraw == Message("user", Str(<<"draw", " ", "a", " ", "cat">>))
UserWithMarkdown == Message("user", Str(<<"edit", " ", "![x](", "https://", "example.com/u.png", ")">>))
UserWithPart ==
    Message("user", Arr(<<Obj([type |-> Str(<<"text">>), text |-> Str(<<"make", " ", "it", " ", "blue">>)]),
                          Obj([type |-> Str(<<"image_url">>), image_url |-> Obj([url |-> DataImage])])>>))
UserImageOnly == Message("user", Arr(<<Obj([type |-> Str(<<"image_url">>), image_url |-> HttpImage])>>))
UserEmpty == Message("user", Str(<<>>))
SystemNote == Message("system", Str(<<"You are a helpful AI.">>))
AssistantImage == Message("assistant", Str(<<"![image](", "https://", "example.com/b.png", ")">>))
AssistantText == Message("assistant", Str(<<"done">>))
AssistantData ==
    Message("assistant", Arr(<<Obj([type |-> Str(<<"image_url">>), image_url |-> Obj([url |-> DataImage])])>>))

MessageLists ==
    { <<UserDraw>>, <<SystemNote, UserDraw>>, <<UserWithMarkdown>>, <<UserWithPart>>, <<UserImageOnly>>,
      <<UserEmpty>>, <<SystemNote>>, <<AssistantImage>>,
      <<UserDraw, AssistantImage, UserDraw>>, <<AssistantImage, UserDraw, AssistantText, UserDraw>>,
      <<UserWithMarkdown, AssistantImage, UserDraw>>, <<AssistantData, UserDraw, AssistantImage, UserDraw>> }

ImagesBody == Obj([model |-> PlainModel, prompt |-> Str(<<"a", " ", "cat">>)])
ChatBody == Obj([model |-> PlainModel, messages |-> Arr(<<SystemNote, UserDraw>>)])

BaseBody(endpoint) == IF endpoint = "images" THEN ImagesBody ELSE ChatBody
PathOf(endpoint) == IF endpoint = "images" THEN ImagesPath ELSE ChatPath

Json(v) == [kind |-> "json", value |-> v]

Request(method, path, authorization, query, text) ==
    [method |-> method, path |-> path, authorization |-> authorization, query |-> query, body |-> text]

Post(endpoint, body) == Request("POST", PathOf(endpoint), Null, NoQuery, Json(body))

Scenario(e, r) == [env |-> e, req |-> r]

\* The access gate: every key configuration, credential, method and path.
GateScenarios ==
    { Scenario(e, Request(m, p, a, q, Json(IF p = ChatPath THEN ChatBody ELSE ImagesBody))) :
        e \in KeyEnvs, m \in {"OPTIONS", "GET", "POST"}, p \in Paths, a \in Authorizations, q \in Queries }

\* Validation: model, prompt, messages and image fields, with and without
\* the upstream key, and bodies that are no JSON object.
UpstreamKeyEnvs == {NoKeysEnv, [NoKeysEnv EXCEPT !.SILICONFLOW_API_KEY = Undefined]}

ModelValues == {Undefined, Null, Str(<<>>), PlainModel, EditModel, EditModelTagged}
PromptValues == {Undefined, Str(<<>>), Str(<<"a", " ", "cat">>), Int1(5)}
ImageValues == {Undefined, HttpImage, PaddedImage, FtpImage, Obj([url |-> DataImage])}
MessagesValues == {Undefined, Arr(<<>>), Str(<<"hello">>)} \cup {Arr(ms) : ms \in MessageLists}

ValidationBodies(endpoint) ==
    IF endpoint = "images"
    THEN { Set(Set(Set(EmptyObject, "model", m), "prompt", pr), "image", im) :
             m \in ModelValues, pr \in PromptValues, im \in ImageValues }
           \cup { Set(Set(Obj([prompt |-> Str(<<"a", " ", "cat">>)]), "model", m), "images", Arr(<<FtpImage, im>>)) :
             m \in {PlainModel, EditModel}, im \in ImageValues \ {Undefined} }
    ELSE { Set(Set(Set(EmptyObject, "model", m), "messages", ms), "image_url", im) :
             m \in ModelValues, ms \in MessagesValues, im \in {Undefined, HttpImage} }

ValidationScenarios ==
    { Scenario(e, Post(ep, b)) : e \in UpstreamKeyEnvs, ep \in {"images"}, b \in ValidationBodies("images") }
        \cup { Scenario(e, Post(ep, b)) : e \in UpstreamKeyEnvs, ep \in {"chat"}, b \in ValidationBodies("chat") }
        \cup { Scenario(e, Request("POST", PathOf(ep), Null, NoQuery, t)) :
                 e \in UpstreamKeyEnvs, ep \in {"images", "chat"},
                 t \in {[kind |-> "empty"], [kind |-> "invalid"], Json(Null), Json(Arr(<<>>))} }

\* The image count: every kind of n, with and without sf_batch_size, in both
\* response formats (ten images only without sf_batch_size, which plays no
\* part there). The client supplies the seed here.
CountValues ==
    { Undefined, Null, Int1(0), Int1(1), Int1(2), Int1(3), Num(FALSE, <<1>>, 2), Num(FALSE, <<1, 1>>, 2),
      Num(TRUE, <<3>>, 1), Num(FALSE, <<2, 5>>, 1), Num(FALSE, <<1>>, 22), Num(FALSE, <<5>>, -6),
      Str(<<"2">>), Str(<<"a", "b", "c">>), Str(<<"3", "a", "b">>), Bool(TRUE) }

BatchValues == {Undefined, Int1(0), Int1(2), Null, Str(<<>>)}
FormatValues == {Undefined, Str(<<"url">>), Str(<<"b64_json">>)}

CountScenarios ==
    { Scenario(NoKeysEnv,
               Post(ep, Set(Set(Set(Set(BaseBody(ep), "seed", Int1(7)), "n", n), "sf_batch_size", bs),
                            "response_format", f))) :
        ep \in {"images", "chat"}, n \in CountValues, bs \in BatchValues, f \in FormatValues } \
    { Scenario(NoKeysEnv,
               Post(ep, Set(Set(Set(Set(BaseBody(ep), "seed", Int1(7)), "n", n), "sf_batch_size", bs),
                            "response_format", f))) :
        ep \in {"images", "chat"}, n \in {Num(FALSE, <<1>>, 2), Num(FALSE, <<1, 1>>, 2)},
        bs \in BatchValues \ {Undefined}, f \in FormatValues }

\* The aliased parameters: the seed pair in every combination, with one of
\* the other pairs, for one and two images, with sf_batch_size absent,
\* set, and set to zero.
OtherPairs ==
    { <<"sf_negative_prompt", "negative_prompt">>, <<"sf_num_steps", "num_inference_steps">>,
      <<"sf_guidance_scale", "guidance_scale">>, <<"sf_cfg", "cfg">> }

ParamBodies(base) ==
    { Set(Set(Set(Set(base, "sf_seed", a), "seed", c), pair[1], oa), pair[2], oc) :
        a \in {Undefined, Int1(5)}, c \in {Undefined, Int1(7), Null},
        pair \in OtherPairs, oa \in {Undefined, Int1(3)}, oc \in {Undefined, Int1(4), Null} }

ParamScenariosOf(ep) ==
    { Scenario(NoKeysEnv, Post(ep, Set(Set(b, "n", n), "sf_batch_size", bs))) :
        b \in ParamBodies(BaseBody(ep)), n \in {Undefined, Int1(2)}, bs \in {Undefined, Int1(2), Int1(0)} }

ParamScenarios == ParamScenariosOf("images") \cup ParamScenariosOf("chat")

Scenarios == GateScenarios \cup ValidationScenarios \cup CountScenarios \cup ParamScenarios

(* ---------------------------- the state machine ------------------------ *)

VARIABLES
    env,        \* the configuration getEnv() reads
    req,        \* the inbound request
    pc,         \* where handleRequest and its handler stand
    h,          \* the locals of the running handler
    inflight,   \* upstream calls issued and not yet answered
    sent,       \* the payloads of the upstream calls, in the order issued
    fetched,    \* the urls fetchAndB64 was called with, in order
    lastReply,  \* the response to the latest upstream call
    faults,     \* what went wrong upstream so far
    responses   \* what event.respondWith was given

vars == <<env, req, pc, h, inflight, sent, fetched, lastReply, faults, responses>>

NoReply == [ok |-> TRUE, status |-> "", statusText |-> "", body |-> "", images |-> <<>>]
NoFaults == [upstream |-> FALSE, fetch |-> FALSE, noImage |-> 0]

Init ==
    /\ \E sc \in Scenarios : env = sc.env /\ req = sc.req
    /\ pc = "start"
    /\ h = NoLocals
    /\ inflight = 0
    /\ sent = <<>>
    /\ fetched = <<>>
    /\ lastReply = NoReply
    /\ faults = NoFaults
    /\ responses = <<>>

\* randSeed() is called only for a sequential call whose template has no
\* seed: the values it may return there, one value where it is not called.
SeedDraws(l) ==
    IF l.next = "call" /\ ~l.batch /\ "seed" \notin DOMAIN l.common THEN Seeds ELSE {0}

\* The handler goes on to its next await, or ends the request.
Proceed(l, s, outstanding) ==
    /\ h' = l
    /\ pc' = CASE l.next = "call" -> "upstream"
               [] l.next = "fetch" -> "fetch"
               [] OTHER -> "done"
    /\ sent' = IF l.next = "call"
               THEN Append(sent, IF l.batch THEN l.common ELSE SeededPayload(l.common, s))
               ELSE sent
    /\ inflight' = IF l.next = "call" THEN outstanding + 1 ELSE outstanding
    /\ fetched' = IF l.next = "fetch" THEN Append(fetched, l.urls[l.j]) ELSE fetched
    /\ responses' = CASE l.next = "finish" ->
                           Append(responses, JsonOk(IF l.endpoint = "images" THEN "images.list" ELSE "chat.completion", l.out))
                      [] l.next = "throw" -> Append(responses, HandlerThrew(l.error))
                      [] OTHER -> responses

\* handleRequest up to its first await: preflight, access gate, route.
HandleRequest ==
    /\ pc = "start"
    /\ LET answer(resp) == pc' = "done" /\ responses' = Append(responses, resp)
       IN  IF req.method = "OPTIONS" THEN answer(Preflight)
           ELSE IF ~authorizeProxy(req, env) THEN answer(Unauthorized)
           ELSE IF Route(req) \in {"images", "chat"} THEN pc' = "body" /\ responses' = responses
           ELSE IF Route(req) = "models" THEN answer(listModels(env))
           ELSE answer(NoRoute)
    /\ UNCHANGED <<env, req, h, inflight, sent, fetched, lastReply, faults>>

\* The endpoint handler the route names, run on the parsed body.
Handler(route, body, e) ==
    IF route = "images" THEN imagesGenerations(body, e) ELSE chatCompletions(body, e)

\* await safeJson(req), then the endpoint handler up to its first upstream
\* call. Only safeJson is awaited inside the try block.
ReadBody ==
    /\ pc = "body"
    /\ IF ~safeJson(req.body).ok
       THEN /\ pc' = "done"
            /\ responses' = Append(responses, Caught(<<"Invalid JSON body">>))
            /\ UNCHANGED <<h, inflight, sent, fetched>>
       ELSE \E outcome \in {Handler(Route(req), safeJson(req.body).value, env)} :
                IF outcome.kind = "respond"
                THEN /\ pc' = "done"
                     /\ responses' = Append(responses, outcome.resp)
                     /\ UNCHANGED <<h, inflight, sent, fetched>>
                ELSE \E s \in SeedDraws(outcome.h) : Proceed(outcome.h, s, inflight)
    /\ UNCHANGED <<env, req, lastReply, faults>>

\* The upstream answers the call in flight and callSiliconFlow returns or throws.
UpstreamReplies ==
    /\ pc = "upstream"
    /\ inflight > 0
    /\ \E reply \in Replies :
        /\ reply.ok /\ ~FirstUrl(reply) => faults.noImage < MaxNoImage
        /\ lastReply' = reply
        /\ faults' = [faults EXCEPT !.upstream = faults.upstream \/ ~reply.ok,
                                    !.noImage = IF reply.ok /\ ~FirstUrl(reply) THEN faults.noImage + 1 ELSE faults.noImage]
        /\ \E l \in {OnUpstream(h, reply)} : \E s \in SeedDraws(l) : Proceed(l, s, inflight - 1)
    /\ UNCHANGED <<env, req>>

\* The image fetch of fetchAndB64 ends, well or not.
FetchReplies ==
    /\ pc = "fetch"
    /\ \E ok \in BOOLEAN :
        /\ faults' = [faults EXCEPT !.fetch = faults.fetch \/ ~ok]
        /\ \E l \in {OnFetch(h, ok)} : \E s \in SeedDraws(l) : Proceed(l, s, inflight)
    /\ UNCHANGED <<env, req, lastReply>>

Next == HandleRequest \/ ReadBody \/ UpstreamReplies \/ FetchReplies

Spec == Init /\ [][Next]_vars
(* -------------------------------- claims ------------------------------- *)

Done == pc = "done"

\* The request reached an endpoint handler with a body that parsed.
HandlerRan == req.method # "OPTIONS" /\ pc \notin {"start", "body"} /\ Route(req) \in {"images", "chat"}
              /\ responses # <<Unauthorized>> /\ req.body.kind # "invalid"

\* The body the handler was given.
TheBody == IF req.body.kind = "json" THEN req.body.value ELSE EmptyObject

Supplied(name) == TheBody.t = "object" /\ name \in DOMAIN TheBody.fields

\* The handler got past validation and issued its first upstream call.
Orchestrating == h.endpoint # "none"

NoFault == ~faults.upstream /\ ~faults.fetch /\ faults.noImage = 0

Succeeded == Done /\ Len(responses) = 1 /\ responses[1].kind = "json" /\ responses[1].status = 200

\* n as an integer of 1..10, 0 for any other value.
RequestedCount ==
    IF Supplied("n") /\ TheBody.fields["n"].t = "number" /\ ~TheBody.fields["n"].neg
    THEN IF TheBody.fields["n"].n = 1 /\ Len(TheBody.fields["n"].digits) = 1 THEN TheBody.fields["n"].digits[1]
         ELSE IF TheBody.fields["n"].n = 2 /\ TheBody.fields["n"].digits = <<1>> THEN 10
         ELSE 0
    ELSE 0

\* C1: a valid request with n in 1..10 and no batch_size never has two
\* upstream calls in flight nor more than n calls issued; when every call
\* succeeds with an image (and every image fetch succeeds) it ends with
\* exactly n calls issued and a result of exactly n entries, entry k being
\* the first image of the response to call k.
C1_SequentialCalls ==
    (Orchestrating /\ RequestedCount >= 1 /\ ~Supplied("sf_batch_size")) =>
        /\ inflight <= 1
        /\ Len(sent) <= RequestedCount
        /\ inflight = 1 => pc = "upstream"
        /\ (Done /\ NoFault) =>
            /\ Len(sent) = RequestedCount
            /\ Succeeded
            /\ Len(responses[1].data) = RequestedCount
            /\ \A k \in 1..RequestedCount : responses[1].data[k].url = Url(k, 1)

C1_Witness ==
    /\ Orchestrating /\ Done /\ NoFault /\ ~Supplied("sf_batch_size")
    /\ RequestedCount = 10 /\ Len(sent) = 10
    /\ h.endpoint = "chat" /\ Len(responses[1].data) = 10

\* The positions of a response's images that carry a url.
WithUrl(images) == {idx \in 1..Len(images) : images[idx]}

\* The entries of a batch result are the upstream's images that carry a
\* url, each once, in the upstream's order.
BatchResultMatches(data, images) ==
    /\ Len(data) = Cardinality(WithUrl(images))
    /\ \A k \in 1..Len(data) : data[k].url.call = 1 /\ data[k].url.idx \in WithUrl(images)
    /\ \A k \in 1..(Len(data) - 1) : data[k].url.idx < data[k + 1].url.idx

\* C2 as stated: whatever value sf_batch_size has, a request with n == 1
\* issues one upstream call whose payload is the template with no seed
\* injected, and its result has as many entries as the upstream response.
C2_AnyBatchSize ==
    (Orchestrating /\ Supplied("sf_batch_size") /\ h.n = 1) =>
        /\ Len(sent) <= 1
        /\ \A k \in 1..Len(sent) : sent[k] = h.common
        /\ Succeeded => Len(responses[1].data) = Len(lastReply.images)

\* C2, amended: when sf_batch_size is truthy and n == 1 there is one
\* upstream call, its payload is the template as built (no seed injected),
\* and a successful result holds one entry for each image of the upstream
\* response that carries a url, in the upstream's order.
C2_TruthyBatchSize ==
    (Orchestrating /\ Supplied("sf_batch_size") /\ Truthy(TheBody.fields["sf_batch_size"]) /\ h.n = 1) =>
        /\ Len(sent) = 1
        /\ sent[1] = h.common
        /\ "seed" \in DOMAIN sent[1] => (Supplied("seed") \/ Supplied("sf_seed"))
        /\ Succeeded => BatchResultMatches(responses[1].data, lastReply.images)

C2_Witness ==
    /\ Orchestrating /\ Succeeded /\ h.n = 1
    /\ Supplied("sf_batch_size") /\ Truthy(TheBody.fields["sf_batch_size"])
    /\ ~Supplied("seed") /\ ~Supplied("sf_seed")
    /\ lastReply.images = <<TRUE, TRUE>> /\ Len(responses[1].data) = 2

\* A string of decimal digits only.
IsNumericText(cs) == cs # <<>> /\ \A i \in 1..Len(cs) : IsDigitChar(cs[i])

\* The image count the claim gives a value of n: 1 when absent, null or
\* non-numeric, the nearest bound when out of 1..10, n itself when an integer
\* of the range; 0 here where the claim names no count (a fraction inside
\* the range).
ClaimedCount(v) ==
    CASE v.t \in {"undefined", "null"} -> 1
      [] v.t = "number" ->
            IF v.neg \/ v.digits = <<0>> \/ v.n <= 0 THEN 1
            ELSE IF v.n >= 2 THEN 10
            ELSE IF Len(v.digits) = 1 THEN v.digits[1]
            ELSE 0
      [] v.t = "string" /\ IsNumericText(v.chars) -> Max(1, Min(10, DigitPrefixValue(v.chars, 0)))
      [] OTHER -> 1

\* C3: the effective image count is 1 for an absent or non-numeric n, the
\* nearest bound for an n out of 1..10 and n itself inside it, and no
\* request causes more than 10 upstream calls.
C3_ClampedCount ==
    /\ Len(sent) <= 10
    /\ (Orchestrating /\ ClaimedCount(Field(TheBody, "n")) # 0) => h.n = ClaimedCount(Field(TheBody, "n"))

\* C4: once an upstream call or an image fetch has failed, the request has
\* ended with exactly one response, the internal_error envelope with status
\* 500, carrying the upstream's status and body, and no image.
C4_FailureEnvelope ==
    (faults.upstream \/ faults.fetch) =>
        /\ Done /\ inflight = 0
        /\ Len(responses) = 1
        /\ responses[1].kind = "json" /\ responses[1].status = 500 /\ responses[1].type = "internal_error"
        /\ responses[1].data = <<>>
        /\ faults.upstream =>
               \E i, j \in 1..Len(responses[1].message) :
                   i < j /\ responses[1].message[i] = lastReply.status /\ responses[1].message[j] = lastReply.body

IsEditRequest == Field(TheBody, "model").t = "string" /\ Field(TheBody, "model").chars \in EditModelIds

\* No image can be resolved for the request, field by field.
NoImageInBody ==
    /\ \A f \in {"image", "image_url"} : ~Truthy(coerceImageStringOrObj(Field(TheBody, f)))
    /\ \A f \in {"images", "image_urls"} :
           Field(TheBody, f).t = "array" =>
               \A i \in 1..Len(Field(TheBody, f).items) : ~Truthy(coerceImageStringOrObj(Field(TheBody, f).items[i]))

TheMessages == IF Field(TheBody, "messages").t = "array" THEN Field(TheBody, "messages").items ELSE <<>>

NoImageInMessages ==
    \A i \in 1..Len(TheMessages) :
        (IsUser(TheMessages[i]) \/ IsAssistant(TheMessages[i])) => ~Truthy(pickImageFromMessage(TheMessages[i]))

NoImageResolvable == NoImageInBody /\ (Route(req) = "chat" => NoImageInMessages)

\* C5: an edit-model request for which no image can be resolved ends with
\* a 400 invalid_request_error and no upstream call, and every upstream
\* payload sent for an edit model carries an image.
C5_EditNeedsImage ==
    /\ (HandlerRan /\ Done /\ IsEditRequest /\ NoImageResolvable) =>
           /\ responses[1].kind = "json" /\ responses[1].status = 400
           /\ responses[1].type = "invalid_request_error"
           /\ sent = <<>>
    /\ \A k \in 1..Len(sent) : sent[k].model.chars \in EditModelIds => "image" \in DOMAIN sent[k]

\* The request fails validation: no model, no usable prompt, no messages,
\* or no user prompt in the messages.
FailsValidation ==
    \/ ~Truthy(Field(TheBody, "model"))
    \/ Route(req) = "images" /\ (~Truthy(Field(TheBody, "prompt")) \/ Field(TheBody, "prompt").t # "string")
    \/ Route(req) = "chat" /\ TheMessages = <<>>
    \/ Route(req) = "chat" /\ ~Truthy(PromptOf(Field(LastUser(TheMessages), "content")))

\* C6: a request that fails validation ends with a 400
\* invalid_request_error and no upstream call or image fetch, whatever the
\* configuration.
C6_ValidationError ==
    (HandlerRan /\ FailsValidation) =>
        /\ Done
        /\ Len(responses) = 1
        /\ responses[1].kind = "json" /\ responses[1].status = 400 /\ responses[1].type = "invalid_request_error"
        /\ sent = <<>> /\ fetched = <<>>

\* The keys the configuration names, read off the five variables.
ConfiguredKeys ==
    UNION { IF Truthy(v) THEN {v.chars[i] : i \in {j \in 1..Len(v.chars) : v.chars[j] \notin KeySeparators}} ELSE {} :
            v \in {env.ALLOW_CLIENT_KEY, env.ALLOW_CLIENT_KEYS, env.ACCESS_TOKEN, env.ACCESS_TOKENS, env.ACCESS_KEYS} }

\* The request presents key k: as its Authorization header, bare or after
\* "Bearer", or as one of the four query parameters.
PresentsKey(k) ==
    \/ /\ req.authorization.t = "string"
       /\ \/ Trim(req.authorization.chars) = <<k>>
          \/ /\ Len(req.authorization.chars) >= 3
             /\ req.authorization.chars[1] \in BearerWords
             /\ Trim(Tail(req.authorization.chars)) = <<k>>
    \/ \E q \in {"access_token", "key", "token", "apikey"} :
           req.query[q].t = "string" /\ Trim(req.query[q].chars) = <<k>>

NoClientSeed == ~Supplied("seed") /\ ~Supplied("sf_seed")

\* C8 as stated: the two sequential calls of an n=2 request with no
\* client-supplied seed carry different seed values.
C8_DistinctSeeds ==
    (Orchestrating /\ h.n = 2 /\ ~h.batch /\ NoClientSeed /\ Len(sent) = 2) => sent[1].seed # sent[2].seed

\* C8, amended: with no client-supplied seed every call of the sequential
\* strategy carries a seed drawn for that call, a non-negative integer
\* below the bound of randSeed, and the template keeps none; two calls may
\* draw the same value.
C8_SeedPerCall ==
    (Orchestrating /\ ~h.batch /\ NoClientSeed) =>
        /\ "seed" \notin DOMAIN h.common
        /\ \A k \in 1..Len(sent) :
               "seed" \in DOMAIN sent[k] /\ \E d \in 0..(MaxSeed - 1) : sent[k].seed = Num(FALSE, <<d>>, 1)

C8_Witness ==
    /\ Orchestrating /\ h.n = 2 /\ ~h.batch /\ NoClientSeed /\ Succeeded
    /\ Len(sent) = 2 /\ sent[1].seed # sent[2].seed

AliasedPairs ==
    { <<"sf_negative_prompt", "negative_prompt">>, <<"sf_num_steps", "num_inference_steps">>,
      <<"sf_guidance_scale", "guidance_scale">>, <<"sf_cfg", "cfg">>, <<"sf_seed", "seed">> }

\* What the mapping table gives the payload field of a pair whose alias or
\* canonical name is supplied.
Mapped(pair) == IF Supplied(pair[2]) THEN TheBody.fields[pair[2]] ELSE TheBody.fields[pair[1]]

\* The payload field of a pair (named as its canonical name) is as the
\* mapping table says.
FollowsTable(payload, pair) ==
    IF Supplied(pair[1]) \/ Supplied(pair[2])
    THEN pair[2] \in DOMAIN payload /\ payload[pair[2]] = Mapped(pair)
    ELSE pair[2] \notin DOMAIN payload

\* C9 as stated: in every upstream payload, each aliased field has the
\* canonical value when both names are supplied, the supplied one when one
\* is, and is absent when neither is.
C9_AliasTable ==
    \A k \in 1..Len(sent) : \A pair \in AliasedPairs : FollowsTable(sent[k], pair)

\* C9, amended: as stated for the four pairs other than the seed and for a
\* supplied seed; when neither sf_seed nor seed is supplied the field is
\* absent from the payload of the batch strategy, and each payload of the
\* sequential strategy carries an injected seed.
C9_AliasTableButSeed ==
    \A k \in 1..Len(sent) :
        /\ \A pair \in AliasedPairs \ {<<"sf_seed", "seed">>} : FollowsTable(sent[k], pair)
        /\ ~NoClientSeed => FollowsTable(sent[k], <<"sf_seed", "seed">>)
        /\ NoClientSeed => ("seed" \in DOMAIN sent[k] <=> ~h.batch)

C9_Witness ==
    /\ Len(sent) = 2 /\ h.endpoint = "chat"
    /\ Supplied("sf_cfg") /\ Supplied("cfg") /\ sent[2]["cfg"] = TheBody.fields["cfg"]
    /\ TheBody.fields["cfg"] # TheBody.fields["sf_cfg"]
    /\ Supplied("sf_seed") /\ ~Supplied("seed") /\ sent[2]["seed"] = TheBody.fields["sf_seed"]

\* C10: in the sequential strategy a call whose response carries no image
\* url fails the whole request, so a successful response holds exactly n
\* images.
C10_NoSilentSkip ==
    (Orchestrating /\ ~h.batch /\ Done) =>
        /\ faults.noImage > 0 => ~Succeeded
        /\ Succeeded => Len(responses[1].data) = h.n

\* The image of the most recent user message, and of the body's image fields.
UserImage == pickImageFromMessage(LastUser(TheMessages))
BodyImage == pickImageFromBody(TheBody)

\* The positions of the assistant messages, and of those holding an image.
AssistantAt == {i \in 1..Len(TheMessages) : IsAssistant(TheMessages[i])}
AssistantImageAt == {i \in AssistantAt : Truthy(pickImageFromMessage(TheMessages[i]))}

Greatest(S) == CHOOSE i \in S : \A j \in S : j <= i

\* The image field of an upstream payload, null when it has none.
ImageOf(payload) == IF "image" \in DOMAIN payload THEN payload["image"] ELSE Null

ChatCalls == Orchestrating /\ h.endpoint = "chat"

\* C11: on the chat endpoint the image of every upstream payload is the
\* image of the most recent user message when it has one, else the image of
\* the body's fields when they hold one, else for an edit model an image of
\* an assistant message; a non-edit model with neither gets no image.
C11_ImagePrecedence ==
    ChatCalls =>
        \A k \in 1..Len(sent) :
            /\ Truthy(UserImage) => ImageOf(sent[k]) = UserImage
            /\ (~Truthy(UserImage) /\ Truthy(BodyImage)) => ImageOf(sent[k]) = BodyImage
            /\ (~Truthy(UserImage) /\ ~Truthy(BodyImage) /\ IsEditRequest) =>
                   \E i \in AssistantImageAt : ImageOf(sent[k]) = pickImageFromMessage(TheMessages[i])
            /\ (~Truthy(UserImage) /\ ~Truthy(BodyImage) /\ ~IsEditRequest) => "image" \notin DOMAIN sent[k]

C11_Witness ==
    /\ ChatCalls /\ Succeeded /\ Len(sent) = 1
    /\ Truthy(UserImage) /\ Truthy(BodyImage) /\ UserImage # BodyImage
    /\ ImageOf(sent[1]) = UserImage

\* The assistant fallback is what chose the image: an edit model on the chat
\* endpoint with no image in the latest user message or the body.
FallbackCase == Route(req) = "chat" /\ IsEditRequest /\ ~Truthy(UserImage) /\ ~Truthy(BodyImage)

ImageRequired == <<"image is required for image-edit models in chat">>

====
